---- MODULE Spec2Model ----
(***************************************************************************)
(* A model of loh.py: the LOH region scanner (LOHAnalyzer.analyze_file     *)
(* with _process_position), the region filter with its centromere split    *)
(* (_filter_regions), the sex call (_determine_sex) and the gene overlap   *)
(* query (find_affected_genes).                                            *)
(*                                                                         *)
(* Optional[T] values are sequences of length 0 (None) or 1.  Python lists *)
(* are sequences, dicts are functions on the set of their keys.  The float *)
(* sex_determination_threshold is the exact rational num/den: for the      *)
(* counts used here a quotient het/total that differs from the threshold   *)
(* differs by far more than one ulp, and an equal one rounds to the same   *)
(* double as the literal, so the float comparison and the rational one     *)
(* agree.                                                                  *)
(***************************************************************************)
EXTENDS Integers, Sequences, FiniteSets, TLC

\* ---------------------------------------------------------------- bounds
\* Longest input (data lines after the header) of one analyze_file call.
MaxLen == 3
\* Largest position of a record, a centromere or a gene interval.
MaxPos == 3
\* Largest chrX record count handed to _determine_sex on its own.
MaxCount == 10
\* Most gene intervals of one chromosome in a BED table.
MaxIntervals == 2

Chroms == {"chr1", "chrX"}
Positions == 1..MaxPos
\* Variant frequencies (percent) of the records.
Freqs == {5, 50}

\* ------------------------------------------------------- data and helpers
None == <<>>

Some(x) == <<x>>

GenomicRegion(chromosome, start, end, homozygous_count, total_count) ==
    [chromosome |-> chromosome, start |-> start, end |-> end,
     homozygous_count |-> homozygous_count, total_count |-> total_count]

size(region) == region.end - region.start + 1

\* The constructor's arguments; sex_determination_threshold is <<num, den>>.
LOHAnalyzer(min_streak, loh_threshold, min_region_size, max_gap, sex_threshold) ==
    [min_streak |-> min_streak, loh_threshold |-> loh_threshold,
     min_region_size |-> min_region_size, max_gap |-> max_gap,
     sex_determination_threshold |-> sex_threshold]

default_loh_threshold == 35

DefaultSexThreshold == <<1, 5>>

\* The analyzers of the scanning specification.
Analyzers ==
    { LOHAnalyzer(ms, default_loh_threshold, mr, mg, DefaultSexThreshold) :
        ms \in {1, 2}, mr \in {1, 2}, mg \in {0, 1} }

\* The centromere tables: no entry at all, or an entry for chr1 only, at a
\* position that a region can have strictly inside, as its start or as its end.
CentromereTables ==
    { [c \in {} |-> 0] } \cup { [c \in {"chr1"} |-> p] : p \in {2} }

Records == [chrom : Chroms, pos : Positions, var_freq : Freqs]

\* Mutant: a frequency equal to a threshold is heterozygous (< and > for <=, >=).
_is_homozygous_strict(self, var_freq) ==
    var_freq < self.loh_threshold \/ var_freq > 100 - self.loh_threshold

_is_homozygous(self, var_freq) ==
    var_freq <= self.loh_threshold \/ var_freq >= 100 - self.loh_threshold

\* ------------------------------------------------------ _process_position
\* The chromosome-change rule: its result is (current_region, gap_count,
\* regions) as the rest of _process_position sees them.
\* Mutant: the open region is dropped instead of emitted.
chromosome_change_drops(chrom, current_region, gap_count, regions) ==
    IF current_region # None /\ current_region[1].chromosome # chrom
    THEN [current_region |-> None, gap_count |-> 0, regions |-> regions]
    ELSE [current_region |-> current_region, gap_count |-> gap_count,
          regions |-> regions]

chromosome_change(chrom, current_region, gap_count, regions) ==
    IF current_region # None /\ current_region[1].chromosome # chrom
    THEN [current_region |-> None, gap_count |-> 0,
          regions |-> Append(regions, current_region[1])]
    ELSE [current_region |-> current_region, gap_count |-> gap_count,
          regions |-> regions]

\* Mutant: every homozygous record opens a new region.
process_homozygous_restarts(chrom, pos, s) ==
    [current_region |-> Some(GenomicRegion(chrom, pos, pos, 1, 1)),
     gap_count |-> 0,
     regions |-> s.regions]

\* Mutant: a homozygous record does not reset the gap counter.
process_homozygous_keeps_gap(chrom, pos, s) ==
    [current_region |->
        IF s.current_region = None
        THEN Some(GenomicRegion(chrom, pos, pos, 1, 1))
        ELSE Some(GenomicRegion(chrom, s.current_region[1].start, pos,
                                s.current_region[1].homozygous_count + 1,
                                s.current_region[1].total_count + 1)),
     gap_count |-> s.gap_count,
     regions |-> s.regions]

\* Mutant: an extension by a homozygous record is not added to total_count.
process_homozygous_undercounts(chrom, pos, s) ==
    [current_region |->
        IF s.current_region = None
        THEN Some(GenomicRegion(chrom, pos, pos, 1, 1))
        ELSE Some(GenomicRegion(chrom, s.current_region[1].start, pos,
                                s.current_region[1].homozygous_count + 1,
                                s.current_region[1].total_count)),
     gap_count |-> 0,
     regions |-> s.regions]

process_homozygous(chrom, pos, s) ==
    [current_region |->
        IF s.current_region = None
        THEN Some(GenomicRegion(chrom, pos, pos, 1, 1))
        ELSE Some(GenomicRegion(chrom, s.current_region[1].start, pos,
                                s.current_region[1].homozygous_count + 1,
                                s.current_region[1].total_count + 1)),
     gap_count |-> 0,
     regions |-> s.regions]

\* Mutant: the region is closed when the gap reaches max_gap (>= for >).
process_heterozygous_eager(self, chrom, pos, s) ==
    IF s.current_region = None
    THEN s
    ELSE LET gap == s.gap_count + 1
             grown == GenomicRegion(chrom, s.current_region[1].start, pos,
                                    s.current_region[1].homozygous_count,
                                    s.current_region[1].total_count + 1)
         IN  IF gap >= self.max_gap
             THEN [current_region |-> None, gap_count |-> 0,
                   regions |-> Append(s.regions, grown)]
             ELSE [current_region |-> Some(grown), gap_count |-> gap,
                   regions |-> s.regions]

\* Mutant: a heterozygous record that finds no region open opens one.
process_heterozygous_opens(self, chrom, pos, s) ==
    IF s.current_region = None
    THEN [current_region |-> Some(GenomicRegion(chrom, pos, pos, 0, 1)),
          gap_count |-> 1, regions |-> s.regions]
    ELSE LET gap == s.gap_count + 1
             grown == GenomicRegion(chrom, s.current_region[1].start, pos,
                                    s.current_region[1].homozygous_count,
                                    s.current_region[1].total_count + 1)
         IN  IF gap > self.max_gap
             THEN [current_region |-> None, gap_count |-> 0,
                   regions |-> Append(s.regions, grown)]
             ELSE [current_region |-> Some(grown), gap_count |-> gap,
                   regions |-> s.regions]

\* Mutant: a heterozygous record is counted but does not move the end.
process_heterozygous_keeps_end(self, chrom, pos, s) ==
    IF s.current_region = None
    THEN s
    ELSE LET gap == s.gap_count + 1
             grown == GenomicRegion(chrom, s.current_region[1].start,
                                    s.current_region[1].end,
                                    s.current_region[1].homozygous_count,
                                    s.current_region[1].total_count + 1)
         IN  IF gap > self.max_gap
             THEN [current_region |-> None, gap_count |-> 0,
                   regions |-> Append(s.regions, grown)]
             ELSE [current_region |-> Some(grown), gap_count |-> gap,
                   regions |-> s.regions]

process_heterozygous(self, chrom, pos, s) ==
    IF s.current_region = None
    THEN s
    ELSE LET gap == s.gap_count + 1
             grown == GenomicRegion(chrom, s.current_region[1].start, pos,
                                    s.current_region[1].homozygous_count,
                                    s.current_region[1].total_count + 1)
         IN  IF gap > self.max_gap
             THEN [current_region |-> None, gap_count |-> 0,
                   regions |-> Append(s.regions, grown)]
             ELSE [current_region |-> Some(grown), gap_count |-> gap,
                   regions |-> s.regions]

_process_position(self, chrom, pos, var_freq, current_region, gap_count, regions) ==
    LET s == chromosome_change(chrom, current_region, gap_count, regions)
    IN  IF _is_homozygous(self, var_freq)
        THEN process_homozygous(chrom, pos, s)
        ELSE process_heterozygous(self, chrom, pos, s)

\* ----------------------------------------------------------- _determine_sex
\* Mutant: a ratio equal to the threshold is Female (>= for >).
_determine_sex_inclusive(self, het_count, total_count) ==
    IF total_count = 0
    THEN "Unknown"
    ELSE IF het_count * self.sex_determination_threshold[2]
              >= self.sex_determination_threshold[1] * total_count
         THEN "Female"
         ELSE "Male"

_determine_sex(self, het_count, total_count) ==
    IF total_count = 0
    THEN "Unknown"
    ELSE IF het_count * self.sex_determination_threshold[2]
              > self.sex_determination_threshold[1] * total_count
         THEN "Female"
         ELSE "Male"

\* ---------------------------------------------------------- _filter_regions
\* Mutant: the upper half gets the remainder of the halved counts.
filter_one_remainder(self, region, centromeres) ==
    IF region.homozygous_count >= self.min_streak
       /\ size(region) >= self.min_region_size
    THEN IF /\ region.chromosome \in DOMAIN centromeres
            /\ centromeres[region.chromosome] # 0
            /\ region.start < centromeres[region.chromosome]
            /\ centromeres[region.chromosome] < region.end
         THEN << GenomicRegion(region.chromosome, region.start,
                               centromeres[region.chromosome] - 1,
                               region.homozygous_count \div 2,
                               region.total_count \div 2),
                 GenomicRegion(region.chromosome,
                               centromeres[region.chromosome], region.end,
                               region.homozygous_count
                                   - region.homozygous_count \div 2,
                               region.total_count - region.total_count \div 2) >>
         ELSE << region >>
    ELSE << >>

\* Mutant: min_region_size is not checked.
filter_one_any_size(self, region, centromeres) ==
    IF region.homozygous_count >= self.min_streak
    THEN IF /\ region.chromosome \in DOMAIN centromeres
            /\ centromeres[region.chromosome] # 0
            /\ region.start < centromeres[region.chromosome]
            /\ centromeres[region.chromosome] < region.end
         THEN << GenomicRegion(region.chromosome, region.start,
                               centromeres[region.chromosome] - 1,
                               region.homozygous_count \div 2,
                               region.total_count \div 2),
                 GenomicRegion(region.chromosome,
                               centromeres[region.chromosome], region.end,
                               region.homozygous_count \div 2,
                               region.total_count \div 2) >>
         ELSE << region >>
    ELSE << >>

\* Mutant: a centromere at the region's start or end splits it too (<= for <).
filter_one_inclusive(self, region, centromeres) ==
    IF region.homozygous_count >= self.min_streak
       /\ size(region) >= self.min_region_size
    THEN IF /\ region.chromosome \in DOMAIN centromeres
            /\ centromeres[region.chromosome] # 0
            /\ region.start <= centromeres[region.chromosome]
            /\ centromeres[region.chromosome] <= region.end
         THEN << GenomicRegion(region.chromosome, region.start,
                               centromeres[region.chromosome] - 1,
                               region.homozygous_count \div 2,
                               region.total_count \div 2),
                 GenomicRegion(region.chromosome,
                               centromeres[region.chromosome], region.end,
                               region.homozygous_count \div 2,
                               region.total_count \div 2) >>
         ELSE << region >>
    ELSE << >>

\* Mutant: the half above the centromere is emitted first.
filter_one_swapped(self, region, centromeres) ==
    IF region.homozygous_count >= self.min_streak
       /\ size(region) >= self.min_region_size
    THEN IF /\ region.chromosome \in DOMAIN centromeres
            /\ centromeres[region.chromosome] # 0
            /\ region.start < centromeres[region.chromosome]
            /\ centromeres[region.chromosome] < region.end
         THEN << GenomicRegion(region.chromosome,
                               centromeres[region.chromosome], region.end,
                               region.homozygous_count \div 2,
                               region.total_count \div 2),
                 GenomicRegion(region.chromosome, region.start,
                               centromeres[region.chromosome] - 1,
                               region.homozygous_count \div 2,
                               region.total_count \div 2) >>
         ELSE << region >>
    ELSE << >>

\* Mutant: both halves of a split include the centromere position.
filter_one_overlapping(self, region, centromeres) ==
    IF region.homozygous_count >= self.min_streak
       /\ size(region) >= self.min_region_size
    THEN IF /\ region.chromosome \in DOMAIN centromeres
            /\ centromeres[region.chromosome] # 0
            /\ region.start < centromeres[region.chromosome]
            /\ centromeres[region.chromosome] < region.end
         THEN << GenomicRegion(region.chromosome, region.start,
                               centromeres[region.chromosome],
                               region.homozygous_count \div 2,
                               region.total_count \div 2),
                 GenomicRegion(region.chromosome,
                               centromeres[region.chromosome], region.end,
                               region.homozygous_count \div 2,
                               region.total_count \div 2) >>
         ELSE << region >>
    ELSE << >>

\* What one candidate region contributes to filtered_regions.
filter_one(self, region, centromeres) ==
    IF region.homozygous_count >= self.min_streak
       /\ size(region) >= self.min_region_size
    THEN IF /\ region.chromosome \in DOMAIN centromeres
            /\ centromeres[region.chromosome] # 0
            /\ region.start < centromeres[region.chromosome]
            /\ centromeres[region.chromosome] < region.end
         THEN << GenomicRegion(region.chromosome, region.start,
                               centromeres[region.chromosome] - 1,
                               region.homozygous_count \div 2,
                               region.total_count \div 2),
                 GenomicRegion(region.chromosome,
                               centromeres[region.chromosome], region.end,
                               region.homozygous_count \div 2,
                               region.total_count \div 2) >>
         ELSE << region >>
    ELSE << >>

RECURSIVE _filter_regions(_, _, _)
_filter_regions(self, regions, centromeres) ==
    IF regions = << >>
    THEN << >>
    ELSE filter_one(self, Head(regions), centromeres)
           \o _filter_regions(self, Tail(regions), centromeres)

\* ------------------------------------------------------ find_affected_genes
\* A gene interval of a BED table is the tuple <<start, end, gene>>.
Genes == {"GENEA", "GENEB"}

Intervals == Positions \X Positions \X Genes

IntervalLists == UNION { [1..n -> Intervals] : n \in 0..MaxIntervals }

\* The gene tables: chr1 has no entry or any list of intervals, chrX has no
\* entry or one interval over every position.
BedTables ==
    { [c \in D |-> IF c = "chr1" THEN l ELSE << <<1, MaxPos, "GENEB">> >>] :
        D \in SUBSET Chroms, l \in IntervalLists }

\* The regions find_affected_genes is asked about (their counts are not read).
QueryRegions ==
    { GenomicRegion(c, s, e, 1, 1) : c \in Chroms, s \in Positions, e \in Positions }

\* Mutant: an interval that only touches the region does not count.
overlaps_strictly(interval, region) ==
    interval[1] < region.end /\ interval[2] > region.start

\* The overlap test of the loop body.
overlaps(interval, region) ==
    interval[1] <= region.end /\ interval[2] >= region.start

RECURSIVE overlap_loop(_, _, _)
\* The for loop over the intervals left, with affected_genes so far.
overlap_loop(region, intervals, affected) ==
    IF intervals = << >>
    THEN affected
    ELSE overlap_loop(region, Tail(intervals),
                      IF overlaps(Head(intervals), region)
                      THEN affected \cup {Head(intervals)[3]}
                      ELSE affected)

find_affected_genes(region, bed_regions) ==
    overlap_loop(region,
                 IF region.chromosome \in DOMAIN bed_regions
                 THEN bed_regions[region.chromosome]
                 ELSE << >>,
                 {})

\* ------------------------------------------------------------ analyze_file
VARIABLES
    pc,             \* where analyze_file is: "open", "scan", "returned", "raised"
    analyzer,       \* self: the LOHAnalyzer's configuration
    centromeres,    \* the centromeres argument
    consumed,       \* the records read so far, in input order
    current_region, \* Optional[GenomicRegion]
    gap_count,
    regions,        \* the candidate regions closed so far
    chrX_stats,     \* [het, total]
    sex,            \* Optional[Sex]: the value of _determine_sex
    returned,       \* Optional[(filtered regions, sex)]: the call's value
    query_region,   \* Optional[GenomicRegion]: find_affected_genes' region
    bed_regions,    \* find_affected_genes' gene table
    affected_genes  \* Optional[Set[str]]: the value of find_affected_genes

vars == <<pc, analyzer, centromeres, consumed, current_region, gap_count,
          regions, chrX_stats, sex, returned, query_region, bed_regions,
          affected_genes>>

\* The variables of the gene query, which analyze_file never touches.
gene_vars == <<query_region, bed_regions, affected_genes>>

InitWith(analyzers) ==
    /\ pc = "open"
    /\ analyzer \in analyzers
    /\ centromeres \in CentromereTables
    /\ consumed = << >>
    /\ current_region = None
    /\ gap_count = 0
    /\ regions = << >>
    /\ chrX_stats = [het |-> 0, total |-> 0]
    /\ sex = None
    /\ returned = None
    /\ query_region = None
    /\ bed_regions = [c \in {} |-> << >>]
    /\ affected_genes = None

Init == InitWith(Analyzers)

\* Mutant: the except clause returns what was found so far.
on_exception_partial(regs, stats) == Some([regions |-> regs, sex |-> "Unknown"])

\* What the except clause leaves the caller with: it logs and re-raises.
on_exception(regs, stats) == None

\* next(f) on a file that has a first line.
SkipHeader ==
    /\ pc = "open"
    /\ pc' = "scan"
    /\ UNCHANGED <<analyzer, centromeres, consumed, current_region, gap_count,
                   regions, chrX_stats, sex, returned, gene_vars>>

\* next(f) on an empty file raises StopIteration, an Exception.
EmptyFile ==
    /\ pc = "open"
    /\ pc' = "raised"
    /\ returned' = on_exception(regions, chrX_stats)
    /\ UNCHANGED <<analyzer, centromeres, consumed, current_region, gap_count,
                   regions, chrX_stats, sex, gene_vars>>

\* Mutant: the records of every chromosome are counted.
track_chrX_every_chromosome(self, chrom, var_freq, stats) ==
    [het |-> IF _is_homozygous(self, var_freq) THEN stats.het
             ELSE stats.het + 1,
     total |-> stats.total + 1]

track_chrX(self, chrom, var_freq, stats) ==
    IF chrom = "chrX"
    THEN [het |-> IF _is_homozygous(self, var_freq) THEN stats.het
                  ELSE stats.het + 1,
          total |-> stats.total + 1]
    ELSE stats

\* One iteration of the loop on a line that parses.
ReadRecord ==
    /\ pc = "scan"
    /\ Len(consumed) < MaxLen
    /\ \E rec \in Records :
         LET out == _process_position(analyzer, rec.chrom, rec.pos, rec.var_freq,
                                      current_region, gap_count, regions)
         IN  /\ consumed' = Append(consumed, rec)
             /\ chrX_stats' = track_chrX(analyzer, rec.chrom, rec.var_freq, chrX_stats)
             /\ current_region' = out.current_region
             /\ gap_count' = out.gap_count
             /\ regions' = out.regions
    /\ UNCHANGED <<pc, analyzer, centromeres, sex, returned, gene_vars>>

\* One iteration of the loop on a line that does not parse: the unpacking,
\* int() or float() raises.
MalformedRecord ==
    /\ pc = "scan"
    /\ pc' = "raised"
    /\ returned' = on_exception(regions, chrX_stats)
    /\ UNCHANGED <<analyzer, centromeres, consumed, current_region, gap_count,
                   regions, chrX_stats, sex, gene_vars>>

\* Mutant: the region still open at the end of the input is not added.
EndOfInput_forgets_last ==
    /\ pc = "scan"
    /\ pc' = "returned"
    /\ regions' = regions
    /\ sex' = Some(_determine_sex(analyzer, chrX_stats.het, chrX_stats.total))
    /\ returned' = Some([regions |-> _filter_regions(analyzer, regions', centromeres),
                         sex |-> sex'[1]])
    /\ UNCHANGED <<analyzer, centromeres, consumed, current_region, gap_count,
                   chrX_stats, gene_vars>>

\* The loop ends: the last region, the sex call, the filter, the return.
EndOfInput ==
    /\ pc = "scan"
    /\ pc' = "returned"
    /\ regions' = IF current_region # None
                  THEN Append(regions, current_region[1])
                  ELSE regions
    /\ sex' = Some(_determine_sex(analyzer, chrX_stats.het, chrX_stats.total))
    /\ returned' = Some([regions |-> _filter_regions(analyzer, regions', centromeres),
                         sex |-> sex'[1]])
    /\ UNCHANGED <<analyzer, centromeres, consumed, current_region, gap_count,
                   chrX_stats, gene_vars>>

Next ==
    \/ SkipHeader
    \/ EmptyFile
    \/ ReadRecord
    \/ MalformedRecord
    \/ EndOfInput

Spec == Init /\ [][Next]_vars

\* --------------------------------- analyze_file under other loh_thresholds
\* Analyzers with the default loh_threshold and with thresholds of 50 and more,
\* with a sex_determination_threshold of 0 and of 0.2.
ThresholdAnalyzers ==
    { LOHAnalyzer(1, t, 1, 1, st) :
        t \in {default_loh_threshold, 50, 65}, st \in { <<0, 1>>, <<1, 5>> } }

SpecThresholds == InitWith(ThresholdAnalyzers) /\ [][Next]_vars

\* -------------------------------- analyze_file with the filter wide open
\* Analyzers that differ in max_gap only, for what the RegionBuilder and the
\* chrX accumulator do: neither reads min_streak or min_region_size.
BuilderAnalyzers ==
    { LOHAnalyzer(1, default_loh_threshold, 1, mg, DefaultSexThreshold) :
        mg \in {0, 1} }

SpecBuilder == InitWith(BuilderAnalyzers) /\ [][Next]_vars

\* ------------------------------------------- _determine_sex, called alone
SexThresholds == { <<1, 5>>, <<1, 2>> }

SexAnalyzers ==
    { LOHAnalyzer(5, default_loh_threshold, 1000000, 2, t) : t \in SexThresholds }

InitSex ==
    /\ pc = "determine_sex"
    /\ analyzer \in SexAnalyzers
    /\ chrX_stats \in { [het |-> h, total |-> t] : h, t \in 0..MaxCount }
    /\ chrX_stats.het <= chrX_stats.total
    /\ centromeres = [c \in {} |-> 0]
    /\ consumed = << >>
    /\ current_region = None
    /\ gap_count = 0
    /\ regions = << >>
    /\ sex = None
    /\ returned = None
    /\ query_region = None
    /\ bed_regions = [c \in {} |-> << >>]
    /\ affected_genes = None

DetermineSex ==
    /\ pc = "determine_sex"
    /\ pc' = "sex_returned"
    /\ sex' = Some(_determine_sex(analyzer, chrX_stats.het, chrX_stats.total))
    /\ UNCHANGED <<analyzer, centromeres, consumed, current_region, gap_count,
                   regions, chrX_stats, returned, gene_vars>>

SpecSex == InitSex /\ [][DetermineSex]_vars

\* ---------------------------------------- find_affected_genes, called alone
InitGenes ==
    /\ pc = "find_affected_genes"
    /\ analyzer \in { LOHAnalyzer(5, default_loh_threshold, 1000000, 2,
                                  DefaultSexThreshold) }
    /\ query_region \in { Some(r) : r \in QueryRegions }
    /\ bed_regions \in BedTables
    /\ affected_genes = None
    /\ centromeres = [c \in {} |-> 0]
    /\ consumed = << >>
    /\ current_region = None
    /\ gap_count = 0
    /\ regions = << >>
    /\ chrX_stats = [het |-> 0, total |-> 0]
    /\ sex = None
    /\ returned = None

FindAffectedGenes ==
    /\ pc = "find_affected_genes"
    /\ pc' = "genes_returned"
    /\ affected_genes' = Some(find_affected_genes(query_region[1], bed_regions))
    /\ UNCHANGED <<analyzer, centromeres, consumed, current_region, gap_count,
                   regions, chrX_stats, sex, returned, query_region, bed_regions>>

SpecGenes == InitGenes /\ [][FindAffectedGenes]_vars

\* ================================================================ claims
\* Shared vocabulary of the claims.
IsHom(rec) == _is_homozygous(analyzer, rec.var_freq)

LastRecord == consumed[Len(consumed)]

\* A step that read one more record: the loop body ran on consumed'[n + 1].
ReadStep == Len(consumed') = Len(consumed) + 1

NewRecord == consumed'[Len(consumed')]

OneChromosome == \A i \in 1..Len(consumed) : consumed[i].chrom = consumed[1].chrom

\* The thresholds of the RegionFilter, stated on a candidate region.
Passes(r) ==
    /\ r.homozygous_count >= analyzer.min_streak
    /\ r.end - r.start + 1 >= analyzer.min_region_size

\* The chromosome of r has a centromere strictly inside r.
Straddles(r) ==
    /\ r.chromosome \in DOMAIN centromeres
    /\ r.start < centromeres[r.chromosome]
    /\ centromeres[r.chromosome] < r.end

\* How many regions of the output stand for candidate r.
Outs(r) == IF ~Passes(r) THEN 0 ELSE IF Straddles(r) THEN 2 ELSE 1

RECURSIVE OutsBefore(_)
\* How many regions of the output stand for the candidates before the i-th.
OutsBefore(i) == IF i <= 1 THEN 0 ELSE OutsBefore(i - 1) + Outs(regions[i - 1])

\* ---------------------------------------------------------------- C1
\* The input is one run of homozygous records of one chromosome that meets
\* min_streak and min_region_size and has no centromere strictly inside.
C1_Case ==
    /\ pc = "returned"
    /\ Len(consumed) >= 1
    /\ OneChromosome
    /\ \A i \in 1..Len(consumed) : IsHom(consumed[i])
    /\ Len(consumed) >= analyzer.min_streak
    /\ LastRecord.pos - consumed[1].pos + 1 >= analyzer.min_region_size
    /\ ~ ( /\ consumed[1].chrom \in DOMAIN centromeres
           /\ consumed[1].pos < centromeres[consumed[1].chrom]
           /\ centromeres[consumed[1].chrom] < LastRecord.pos )

\* C1: one contiguous homozygous run of N records that meets the thresholds and
\* crosses no centromere comes back as exactly one region, from the first
\* position to the last, with homozygous_count = total_count = N.
C1_SingleRun ==
    C1_Case =>
        returned[1].regions =
            << GenomicRegion(consumed[1].chrom, consumed[1].pos, LastRecord.pos,
                             Len(consumed), Len(consumed)) >>

C1_Witness == C1_Case /\ Len(consumed) >= 2 /\ Len(returned[1].regions) = 1

\* ---------------------------------------------------------------- C2
\* The input is a homozygous records, then k heterozygous ones, then b more
\* homozygous ones, all of one chromosome.
Shape(a, k, b) ==
    /\ a >= 1 /\ b >= 1 /\ k >= 0
    /\ Len(consumed) = a + k + b
    /\ OneChromosome
    /\ \A i \in 1..Len(consumed) : IsHom(consumed[i]) <=> (i <= a \/ i > a + k)

\* C2: two homozygous runs of one chromosome separated by exactly max_gap
\* heterozygous records are one candidate region covering both runs; separated
\* by max_gap + 1 heterozygous records they are two candidates, the first
\* closed at the (max_gap+1)-th heterozygous record and the second opened at
\* the next homozygous record, and each stands in the output by itself.
C2_GapTolerance ==
    pc = "returned" =>
        \A a, b \in 1..Len(consumed) :
            /\ Shape(a, analyzer.max_gap, b) =>
                 regions = << GenomicRegion(consumed[1].chrom, consumed[1].pos,
                                            LastRecord.pos, a + b,
                                            a + analyzer.max_gap + b) >>
            /\ Shape(a, analyzer.max_gap + 1, b) =>
                 /\ regions =
                      << GenomicRegion(consumed[1].chrom, consumed[1].pos,
                                       consumed[a + analyzer.max_gap + 1].pos,
                                       a, a + analyzer.max_gap + 1),
                         GenomicRegion(consumed[1].chrom,
                                       consumed[a + analyzer.max_gap + 2].pos,
                                       LastRecord.pos, b, b) >>
                 /\ Len(returned[1].regions) = Outs(regions[1]) + Outs(regions[2])
                 /\ Outs(regions[1]) > 0 =>
                      returned[1].regions[1].start = regions[1].start
                 /\ Outs(regions[2]) > 0 =>
                      returned[1].regions[Len(returned[1].regions)].end
                          = regions[2].end

\* Two runs split by max_gap + 1 heterozygous records, of which the filter
\* keeps one and drops the other.
C2_Witness ==
    /\ pc = "returned"
    /\ \E a, b \in 1..Len(consumed) : Shape(a, analyzer.max_gap + 1, b)
    /\ Len(regions) = 2
    /\ Passes(regions[1]) /\ ~Passes(regions[2])

\* ---------------------------------------------------------------- C3
\* The step read a heterozygous record with no region open once the
\* chromosome-change rule has been applied.
C3_IdleHet ==
    /\ ReadStep
    /\ ~IsHom(NewRecord)
    /\ (current_region = None \/ current_region[1].chromosome # NewRecord.chrom)

\* C3 (step): a heterozygous record that finds no region open leaves the state
\* Idle and leaves the gap counter and the emitted list as the
\* chromosome-change rule left them.
C3_IdleHetStep ==
    C3_IdleHet =>
        /\ current_region' = None
        /\ gap_count' = (IF current_region = None THEN gap_count ELSE 0)
        /\ regions' = (IF current_region = None THEN regions
                       ELSE Append(regions, current_region[1]))

\* C3 (state): every region the builder holds or has emitted starts at the
\* position of a homozygous record of its chromosome and counts at least one.
C3_StartsHomozygous ==
    \A r \in {regions[i] : i \in 1..Len(regions)}
             \cup {current_region[i] : i \in 1..Len(current_region)} :
        /\ r.homozygous_count >= 1
        /\ \E i \in 1..Len(consumed) :
             /\ IsHom(consumed[i])
             /\ consumed[i].chrom = r.chromosome
             /\ consumed[i].pos = r.start

\* C3: a heterozygous record never opens a region.
C3_HetNeverOpens ==
    C3_StartsHomozygous /\ [][C3_IdleHetStep /\ C3_StartsHomozygous']_vars

\* A heterozygous record was read first, then a region was emitted.
C3_Witness ==
    /\ Len(consumed) >= 2
    /\ ~IsHom(consumed[1])
    /\ Len(regions) >= 1
    /\ current_region = None

\* ---------------------------------------------------------------- C4
\* C4: a candidate that passes the thresholds and has its chromosome's
\* centromere C strictly inside stands in the output as exactly the two regions
\* [start, C-1] and [C, end], each with the floor of half of either count.
C4_CentromereSplit ==
    pc = "returned" =>
        /\ Len(returned[1].regions) = OutsBefore(Len(regions) + 1)
        /\ \A i \in 1..Len(regions) :
             (Passes(regions[i]) /\ Straddles(regions[i])) =>
                 /\ returned[1].regions[OutsBefore(i) + 1] =
                      GenomicRegion(regions[i].chromosome, regions[i].start,
                                    centromeres[regions[i].chromosome] - 1,
                                    regions[i].homozygous_count \div 2,
                                    regions[i].total_count \div 2)
                 /\ returned[1].regions[OutsBefore(i) + 2] =
                      GenomicRegion(regions[i].chromosome,
                                    centromeres[regions[i].chromosome],
                                    regions[i].end,
                                    regions[i].homozygous_count \div 2,
                                    regions[i].total_count \div 2)

\* A split of a candidate with odd counts: the halves sum to one less.
C4_Witness ==
    /\ pc = "returned"
    /\ \E i \in 1..Len(regions) :
         /\ Passes(regions[i]) /\ Straddles(regions[i])
         /\ regions[i].homozygous_count = 3
         /\ returned[1].regions[OutsBefore(i) + 1].homozygous_count
              + returned[1].regions[OutsBefore(i) + 2].homozygous_count = 2

\* ---------------------------------------------------------------- C5
\* C5: _determine_sex is Unknown for no chrX record; otherwise Female exactly
\* when het/total is strictly above the threshold, and Male otherwise, so a
\* ratio equal to the threshold is Male (3 of 10 at 0.2 is Female, 2 of 10 is
\* Male).
C5_SexClassification ==
    pc = "sex_returned" =>
        LET num == analyzer.sex_determination_threshold[1]
            den == analyzer.sex_determination_threshold[2]
            het == chrX_stats.het
            total == chrX_stats.total
        IN  /\ total = 0 => sex = <<"Unknown">>
            /\ (total > 0 /\ het * den > num * total) => sex = <<"Female">>
            /\ (total > 0 /\ het * den = num * total) => sex = <<"Male">>
            /\ (total > 0 /\ het * den < num * total) => sex = <<"Male">>
            /\ (total = 10 /\ het = 3 /\ num = 1 /\ den = 5) => sex = <<"Female">>
            /\ (total = 10 /\ het = 2 /\ num = 1 /\ den = 5) => sex = <<"Male">>

\* The ratio equals the threshold 0.2: 2 heterozygous of 10 chrX records.
C5_Witness ==
    /\ pc = "sex_returned"
    /\ chrX_stats = [het |-> 2, total |-> 10]
    /\ analyzer.sex_determination_threshold = <<1, 5>>
    /\ sex = <<"Male">>

\* ---------------------------------------------------------------- C6
\* C6 as stated: every returned region meets min_streak and min_region_size.
C6_Original ==
    pc = "returned" =>
        \A k \in 1..Len(returned[1].regions) : Passes(returned[1].regions[k])

\* r is one of the two halves _filter_regions makes of candidate c.
HalfOf(r, c) ==
    /\ Straddles(c)
    /\ r.chromosome = c.chromosome
    /\ r.homozygous_count = c.homozygous_count \div 2
    /\ r.total_count = c.total_count \div 2
    /\ \/ r.start = c.start /\ r.end = centromeres[c.chromosome] - 1
       \/ r.start = centromeres[c.chromosome] /\ r.end = c.end

\* C6 (amended): every returned region is a candidate that meets min_streak and
\* min_region_size, returned unchanged, or one of the two centromere halves of
\* such a candidate; only the unsplit ones are sure to meet the thresholds
\* themselves.
C6_ThresholdsBeforeSplit ==
    pc = "returned" =>
        \A k \in 1..Len(returned[1].regions) :
            \E i \in 1..Len(regions) :
                /\ Passes(regions[i])
                /\ \/ ~Straddles(regions[i]) /\ returned[1].regions[k] = regions[i]
                   \/ HalfOf(returned[1].regions[k], regions[i])

\* A returned half that is below min_streak, next to a returned unsplit region.
C6_Witness ==
    /\ pc = "returned"
    /\ \E k \in 1..Len(returned[1].regions) :
         /\ ~Passes(returned[1].regions[k])
         /\ \E i \in 1..Len(regions) : HalfOf(returned[1].regions[k], regions[i])
    /\ \E k \in 1..Len(returned[1].regions), i \in 1..Len(regions) :
         returned[1].regions[k] = regions[i]

\* ---------------------------------------------------------------- C7
\* The intervals the table lists for the chromosome of the queried region.
ListedIntervals ==
    IF query_region[1].chromosome \in DOMAIN bed_regions
    THEN bed_regions[query_region[1].chromosome]
    ELSE << >>

\* C7: find_affected_genes returns exactly the genes with an interval (s, e, g)
\* of the region's chromosome with s <= region.end and e >= region.start, each
\* once, and the empty set for a chromosome without table entry.
C7_AffectedGenes ==
    pc = "genes_returned" =>
        /\ affected_genes[1] =
             { g \in Genes :
                 \E i \in 1..Len(ListedIntervals) :
                     /\ ListedIntervals[i][3] = g
                     /\ ListedIntervals[i][1] <= query_region[1].end
                     /\ ListedIntervals[i][2] >= query_region[1].start }
        /\ query_region[1].chromosome \notin DOMAIN bed_regions =>
             affected_genes[1] = {}

\* One gene in two overlapping intervals, the first touching the region at its
\* end coordinate only, while the other chromosome lists another gene.
C7_Witness ==
    /\ pc = "genes_returned"
    /\ query_region[1].chromosome = "chr1"
    /\ query_region[1].start < query_region[1].end
    /\ DOMAIN bed_regions = Chroms
    /\ Len(ListedIntervals) = 2
    /\ ListedIntervals[1] = <<query_region[1].end, MaxPos, "GENEA">>
    /\ query_region[1].end < MaxPos
    /\ ListedIntervals[2] = <<1, query_region[1].start, "GENEA">>
    /\ affected_genes = << {"GENEA"} >>

\* ---------------------------------------------------------------- C8
\* C8: a record that cannot be parsed ends analyze_file with the exception and
\* no value at all: no region list and no sex, however many regions were closed
\* before.
C8_NoPartialResult ==
    pc = "raised" => (returned = None /\ sex = None)

\* A malformed record after a region was closed and another opened.
C8_Witness ==
    /\ pc = "raised"
    /\ Len(regions) >= 1
    /\ current_region # None
    /\ returned = None

\* ---------------------------------------------------------------- C9
\* The step read a record of another chromosome than the open region's.
C9_Change ==
    /\ ReadStep
    /\ current_region # None
    /\ current_region[1].chromosome # NewRecord.chrom

\* C9 (step): the open region is emitted as it was, the gap counter is reset,
\* and the record meets the Idle state: homozygous, it opens a region of the
\* new chromosome at its position with counts 1/1; heterozygous, it opens none.
C9_ChangeStep ==
    C9_Change =>
        /\ regions' = Append(regions, current_region[1])
        /\ gap_count' = 0
        /\ IsHom(NewRecord) =>
             current_region' = Some(GenomicRegion(NewRecord.chrom, NewRecord.pos,
                                                  NewRecord.pos, 1, 1))
        /\ ~IsHom(NewRecord) => current_region' = None

\* r is built from the records i..j of the input, all of r's chromosome.
BuiltFrom(r, i, j) ==
    /\ i <= j
    /\ r.total_count = j - i + 1
    /\ r.start = consumed[i].pos
    /\ r.end = consumed[j].pos
    /\ \A n \in i..j : consumed[n].chrom = r.chromosome
    /\ r.homozygous_count = Cardinality({ n \in i..j : IsHom(consumed[n]) })

\* C9 (state): every region, open or emitted, is built from consecutive records
\* of one chromosome.
C9_OneChromosomePerRegion ==
    \A r \in {regions[n] : n \in 1..Len(regions)}
             \cup {current_region[n] : n \in 1..Len(current_region)} :
        \E i, j \in 1..Len(consumed) : BuiltFrom(r, i, j)

\* C9: a chromosome change closes the open region untouched and the same record
\* is processed from Idle; no region mixes chromosomes.
C9_ChromosomeChange ==
    /\ C9_OneChromosomePerRegion
    /\ [][C9_ChangeStep /\ C9_OneChromosomePerRegion']_vars

\* A region of two records was emitted by the first record of the other
\* chromosome, which opened its own region in the same step.
C9_Witness ==
    /\ pc = "scan"
    /\ Len(consumed) = 3
    /\ consumed[2].chrom # consumed[3].chrom
    /\ Len(regions) = 1
    /\ regions[1].total_count = 2
    /\ current_region = Some(GenomicRegion(consumed[3].chrom, consumed[3].pos,
                                           consumed[3].pos, 1, 1))

\* ---------------------------------------------------------------- C10
\* The step read a heterozygous record of the open region's chromosome.
C10_OpenHet ==
    /\ ReadStep
    /\ current_region # None
    /\ current_region[1].chromosome = NewRecord.chrom
    /\ ~IsHom(NewRecord)

\* The open region grown by the heterozygous record.
C10_Grown ==
    GenomicRegion(current_region[1].chromosome, current_region[1].start,
                  NewRecord.pos, current_region[1].homozygous_count,
                  current_region[1].total_count + 1)

\* C10 (step): the region's end becomes the record's position, total_count
\* grows by one, homozygous_count stays; the gap counter grows by one, and on
\* exceeding max_gap the grown region is emitted with all its trailing
\* heterozygous records, the counter is reset and the state is Idle.
C10_OpenHetStep ==
    C10_OpenHet =>
        IF gap_count + 1 > analyzer.max_gap
        THEN /\ regions' = Append(regions, C10_Grown)
             /\ current_region' = None
             /\ gap_count' = 0
             /\ C10_Grown.end = NewRecord.pos
             /\ C10_Grown.total_count - C10_Grown.homozygous_count
                  >= analyzer.max_gap + 1
        ELSE /\ regions' = regions
             /\ current_region' = Some(C10_Grown)
             /\ gap_count' = gap_count + 1

\* C10: a heterozygous record extends the open region and closes it once more
\* than max_gap of them are consecutive.
C10_HetExtends == [][C10_OpenHetStep]_vars

\* With max_gap = 1, the second heterozygous record in a row closed the region.
C10_Witness ==
    /\ analyzer.max_gap = 1
    /\ Len(consumed) = 3
    /\ ~IsHom(consumed[2]) /\ ~IsHom(consumed[3])
    /\ current_region = None
    /\ Len(regions) = 1
    /\ regions[1].end = consumed[3].pos
    /\ regions[1].total_count = 3
    /\ regions[1].homozygous_count = 1

\* ---------------------------------------------------------------- C11
\* The regions opened so far, in opening order: the emitted ones and, while the
\* input is still read, the open one.
Opened == IF pc = "returned" THEN regions ELSE regions \o current_region

RECURSIVE FirstHomFrom(_)
\* The index of the first homozygous record at or after n (Len + 1: none).
FirstHomFrom(n) ==
    IF n > Len(consumed) THEN Len(consumed) + 1
    ELSE IF IsHom(consumed[n]) THEN n
    ELSE FirstHomFrom(n + 1)

RECURSIVE SegStart(_)
\* The index of the record that opened the k-th opened region: the first
\* homozygous record after the records of the region before it.
SegStart(k) ==
    FirstHomFrom(IF k = 1 THEN 1
                 ELSE SegStart(k - 1) + Opened[k - 1].total_count)

RECURSIVE OpenedFrom(_, _)
\* The opened regions from the k-th on are built, in order, from the records
\* from the n-th on: each from the first homozygous record left to as many
\* records as it counts, and no homozygous record is left after the last.
OpenedFrom(k, n) ==
    IF k > Len(Opened)
    THEN FirstHomFrom(n) = Len(consumed) + 1
    ELSE LET i == FirstHomFrom(n)
             j == i + Opened[k].total_count - 1
         IN  /\ j <= Len(consumed)
             /\ BuiltFrom(Opened[k], i, j)
             /\ OpenedFrom(k + 1, j + 1)

\* Every opened region stands once in Opened, in opening order, built from its
\* own records, and no homozygous record is left outside them.
C11_EachOpenedOnce == OpenedFrom(1, 1)

\* The end of the input emits the open region, last; no step takes an emitted
\* region back or emits two.
C11_EmitStep ==
    /\ (pc = "scan" /\ pc' = "returned") =>
         regions' = (IF current_region # None
                     THEN Append(regions, current_region[1])
                     ELSE regions)
    /\ Len(regions') <= Len(regions) + 1
    /\ SubSeq(regions', 1, Len(regions)) = regions

\* C11: a region still open at the end of the input is emitted once, as the
\* last candidate, and every region ever opened is emitted exactly once.
C11_OpenedEmittedOnce ==
    C11_EachOpenedOnce /\ [][C11_EmitStep /\ C11_EachOpenedOnce']_vars

\* One region closed by a gap, an ignored record, and one closed by the end of
\* the input.
C11_Witness ==
    /\ pc = "returned"
    /\ current_region # None
    /\ Len(regions) = 2
    /\ regions[2] = current_region[1]
    /\ regions[1] # regions[2]

\* ---------------------------------------------------------------- C12
\* Positions do not decrease within a contiguous block of one chromosome.
NonDecreasing ==
    \A i \in 1..(Len(consumed) - 1) :
        consumed[i].chrom = consumed[i + 1].chrom =>
            consumed[i].pos <= consumed[i + 1].pos

WellFormed(r) ==
    /\ 0 <= r.homozygous_count
    /\ r.homozygous_count <= r.total_count
    /\ r.start <= r.end

\* Every region there is: emitted, open, or returned by the filter.
AllRegions ==
    {regions[n] : n \in 1..Len(regions)}
        \cup {current_region[n] : n \in 1..Len(current_region)}
        \cup UNION { {returned[m].regions[n] : n \in 1..Len(returned[m].regions)} :
                       m \in 1..Len(returned) }

C12_WellFormed == NonDecreasing => \A r \in AllRegions : WellFormed(r)

\* The next record of the open region's block is not before the region's end.
C12_EndStep ==
    ( /\ ReadStep
      /\ current_region # None
      /\ current_region[1].chromosome = NewRecord.chrom
      /\ NonDecreasing' ) =>
        current_region[1].end <= NewRecord.pos

\* C12: on input whose positions do not decrease within a chromosome block,
\* every region (open, emitted, returned, split half) has
\* 0 <= homozygous_count <= total_count and start <= end, and the open
\* region's end is at most the position of the block's later records.
C12_RegionInvariant ==
    C12_WellFormed /\ [][C12_EndStep /\ C12_WellFormed']_vars

\* A sorted input of three records whose region is returned split in two.
C12_Witness ==
    /\ pc = "returned"
    /\ NonDecreasing
    /\ Len(consumed) = 3
    /\ Len(regions) = 1
    /\ regions[1].total_count = 3
    /\ regions[1].homozygous_count = 2
    /\ Len(returned[1].regions) = 2

\* ---------------------------------------------------------------- C13
\* C13: _filter_regions keeps a candidate exactly when the candidate itself
\* meets min_streak and min_region_size; a kept candidate without centromere
\* entry, or with the centromere at or outside its start or end, stands in the
\* output once and unchanged.
C13_KeptUnchanged ==
    pc = "returned" =>
        /\ Len(returned[1].regions) =
             Cardinality({ i \in 1..Len(regions) :
                             Passes(regions[i]) /\ ~Straddles(regions[i]) })
             + 2 * Cardinality({ i \in 1..Len(regions) :
                                   Passes(regions[i]) /\ Straddles(regions[i]) })
        /\ \A i \in 1..Len(regions) :
             (Passes(regions[i]) /\ ~Straddles(regions[i])) =>
                 /\ OutsBefore(i + 1) = OutsBefore(i) + 1
                 /\ returned[1].regions[OutsBefore(i) + 1] = regions[i]

\* A kept candidate that starts at its chromosome's centromere, after a
\* candidate that is dropped.
C13_Witness ==
    /\ pc = "returned"
    /\ Len(regions) = 2
    /\ ~Passes(regions[1])
    /\ Passes(regions[2])
    /\ regions[2].chromosome \in DOMAIN centromeres
    /\ regions[2].start = centromeres[regions[2].chromosome]
    /\ regions[2].start < regions[2].end
    /\ returned[1].regions = << regions[2] >>

\* ---------------------------------------------------------------- C14
\* The candidate that the k-th region of the output stands for (Len + 1: none).
Origin(k) ==
    CHOOSE i \in 1..(Len(regions) + 1) :
        /\ i = Len(regions) + 1 \/ OutsBefore(i + 1) >= k
        /\ \A j \in 1..(i - 1) : OutsBefore(j + 1) < k

\* The output lists the candidates in their order, the two halves of a split
\* next to each other with the lower one first.
C14_OrderKept ==
    pc = "returned" =>
        \A k \in 1..Len(returned[1].regions) :
            /\ Origin(k) <= Len(regions)
            /\ \/ returned[1].regions[k] = regions[Origin(k)]
               \/ HalfOf(returned[1].regions[k], regions[Origin(k)])
            /\ (k < Len(returned[1].regions) /\ Origin(k) = Origin(k + 1)) =>
                 /\ returned[1].regions[k].start = regions[Origin(k)].start
                 /\ returned[1].regions[k].end
                      = centromeres[regions[Origin(k)].chromosome] - 1
                 /\ returned[1].regions[k + 1].start
                      = centromeres[regions[Origin(k)].chromosome]
                 /\ returned[1].regions[k + 1].end = regions[Origin(k)].end

\* A region is emitted by appending it: the list is in closing order.
C14_ClosingOrder ==
    \/ regions' = regions
    \/ /\ Len(regions') = Len(regions) + 1
       /\ SubSeq(regions', 1, Len(regions)) = regions

\* C14: the output keeps the order in which the candidates were closed, and the
\* halves of a split are adjacent, [start, C-1] right before [C, end].
C14_OrderPreserved ==
    C14_OrderKept /\ [][C14_ClosingOrder /\ C14_OrderKept']_vars

\* A split candidate followed by a kept candidate of the other chromosome.
C14_Witness ==
    /\ pc = "returned"
    /\ Len(regions) = 2
    /\ Len(returned[1].regions) = 3
    /\ Origin(1) = 1 /\ Origin(2) = 1 /\ Origin(3) = 2
    /\ returned[1].regions[3] = regions[2]

\* ---------------------------------------------------------------- C15
\* The chrX records read, and the heterozygous ones among them.
ChrXRecords == { i \in 1..Len(consumed) : consumed[i].chrom = "chrX" }

ChrXHetRecords == { i \in ChrXRecords : ~IsHom(consumed[i]) }

\* The sex call of a fold over the chrX records alone.
SexOfFold ==
    IF Cardinality(ChrXRecords) = 0 THEN "Unknown"
    ELSE IF Cardinality(ChrXHetRecords) * analyzer.sex_determination_threshold[2]
              > analyzer.sex_determination_threshold[1] * Cardinality(ChrXRecords)
         THEN "Female"
         ELSE "Male"

RECURSIVE BuilderAlone(_)
\* The RegionBuilder run alone over the first n records.
BuilderAlone(n) ==
    IF n = 0
    THEN [current_region |-> None, gap_count |-> 0, regions |-> << >>]
    ELSE LET before == BuilderAlone(n - 1)
         IN  _process_position(analyzer, consumed[n].chrom, consumed[n].pos,
                               consumed[n].var_freq, before.current_region,
                               before.gap_count, before.regions)

\* C15: after any records the chrX accumulator holds the number of chrX
\* records and of heterozygous chrX records, whatever the builder's state, the
\* sex returned is that of a fold over the chrX records alone, and the
\* candidate regions are those of the builder run alone.
C15_FusedPass ==
    LET alone == BuilderAlone(Len(consumed))
    IN  /\ chrX_stats.total = Cardinality(ChrXRecords)
        /\ chrX_stats.het = Cardinality(ChrXHetRecords)
        /\ current_region = alone.current_region
        /\ gap_count = alone.gap_count
        /\ pc # "returned" => regions = alone.regions
        /\ pc = "returned" =>
             /\ regions = alone.regions \o current_region
             /\ returned[1].sex = SexOfFold

\* Two chrX records, one heterozygous, around a chr1 record: Female, with a
\* region closed by each chromosome change.
C15_Witness ==
    /\ pc = "returned"
    /\ Len(consumed) = 3
    /\ ChrXRecords = {1, 3}
    /\ ChrXHetRecords = {3}
    /\ Len(regions) = 2
    /\ returned[1].sex = "Female"

\* ---------------------------------------------------------------- C16
\* C16: a frequency is homozygous exactly when it is <= loh_threshold or
\* >= 100 - loh_threshold; with loh_threshold >= 50 that is every frequency of
\* 0..100, so no record is heterozygous, no gap is counted and the sex is never
\* Female.
C16_Threshold ==
    /\ pc = "open" =>
         \A f \in 0..100 :
             /\ _is_homozygous(analyzer, f) <=>
                  (f <= analyzer.loh_threshold \/ f >= 100 - analyzer.loh_threshold)
             /\ analyzer.loh_threshold >= 50 => _is_homozygous(analyzer, f)
    /\ analyzer.loh_threshold >= 50 =>
         /\ \A i \in 1..Len(consumed) : IsHom(consumed[i])
         /\ gap_count = 0
         /\ chrX_stats.het = 0
         /\ sex # <<"Female">>
         /\ \A i \in 1..Len(regions) :
              regions[i].homozygous_count = regions[i].total_count
         /\ \A i \in 1..Len(current_region) :
              current_region[i].homozygous_count = current_region[i].total_count

\* With loh_threshold 50, three chrX records of frequency 50 are one region of
\* three homozygous records, and the sex is Male.
C16_Witness ==
    /\ pc = "returned"
    /\ analyzer.loh_threshold = 50
    /\ Len(consumed) = 3
    /\ \A i \in 1..3 : consumed[i].chrom = "chrX" /\ consumed[i].var_freq = 50
    /\ regions[1].homozygous_count = 3
    /\ sex = <<"Male">>

\* ---------------------------------------------------------------- C17
RECURSIVE TrailingHets(_)
\* The number of heterozygous records in a row at the end of the first n.
TrailingHets(n) ==
    IF n = 0 \/ IsHom(consumed[n]) THEN 0 ELSE 1 + TrailingHets(n - 1)

\* After every record: Idle has a gap counter of 0; Open has one between 0 and
\* max_gap that counts the heterozygous records since the region's last
\* homozygous one.
C17_GapCount ==
    /\ current_region = None => gap_count = 0
    /\ current_region # None =>
         /\ 0 <= gap_count
         /\ gap_count <= analyzer.max_gap
         /\ gap_count = TrailingHets(Len(consumed))
         /\ gap_count = current_region[1].total_count
                          - Cardinality({ i \in (Len(consumed)
                                                   - current_region[1].total_count
                                                   + 1)..Len(consumed) :
                                            \E j \in i..Len(consumed) :
                                                IsHom(consumed[j]) })

\* Every homozygous record resets the counter.
C17_HomResets == (ReadStep /\ IsHom(NewRecord)) => gap_count' = 0

\* C17: the gap counter is 0 when Idle, within 0..max_gap when Open, equal to
\* the run of heterozygous records at the tail of the open region, and reset
\* by every homozygous record.
C17_GapInvariant == C17_GapCount /\ [][C17_HomResets /\ C17_GapCount']_vars

\* A gap of one was reset by a homozygous record and counted again.
C17_Witness ==
    /\ pc = "scan"
    /\ analyzer.max_gap = 1
    /\ Len(consumed) = 3
    /\ IsHom(consumed[1]) /\ ~IsHom(consumed[2]) /\ IsHom(consumed[3])
    /\ current_region # None
    /\ current_region[1].total_count = 3
    /\ gap_count = 0

\* ---------------------------------------------------------------- C18
RECURSIVE SumHom(_)
\* homozygous_count summed over the first n candidate regions.
SumHom(n) == IF n = 0 THEN 0 ELSE SumHom(n - 1) + regions[n].homozygous_count

RECURSIVE SumTotal(_)
\* total_count summed over the first n candidate regions.
SumTotal(n) == IF n = 0 THEN 0 ELSE SumTotal(n - 1) + regions[n].total_count

\* C18: over all candidate regions, the one closed at the end of the input
\* included, homozygous_count sums to the number of homozygous records of the
\* input and total_count sums to at most the number of records.
C18_Conservation ==
    pc = "returned" =>
        /\ SumHom(Len(regions))
             = Cardinality({ i \in 1..Len(consumed) : IsHom(consumed[i]) })
        /\ SumTotal(Len(regions)) <= Len(consumed)

\* Two candidate regions and a heterozygous record that is in neither.
C18_Witness ==
    /\ pc = "returned"
    /\ Len(consumed) = 3
    /\ Len(regions) = 2
    /\ SumHom(2) = 2
    /\ SumTotal(2) = 2

\* ---------------------------------------------------------------- C19
\* Positions increase strictly within a contiguous block of one chromosome.
StrictlyIncreasing ==
    \A i \in 1..(Len(consumed) - 1) :
        consumed[i].chrom = consumed[i + 1].chrom =>
            consumed[i].pos < consumed[i + 1].pos

\* Candidates i <= j come from the same contiguous block of one chromosome.
SameBlock(i, j) ==
    \A n \in SegStart(i)..SegStart(j) : consumed[n].chrom = regions[i].chromosome

\* C19: on input whose positions increase strictly within a chromosome block,
\* the returned regions of one block are in increasing order without overlap
\* (each starts after the end of those before it), and the two halves of a
\* split are exactly adjacent and cover the candidate's span.
C19_Disjoint ==
    (pc = "returned" /\ StrictlyIncreasing) =>
        /\ \A k, l \in 1..Len(returned[1].regions) :
             (k < l /\ SameBlock(Origin(k), Origin(l))) =>
                 returned[1].regions[k].end < returned[1].regions[l].start
        /\ \A k \in 1..(Len(returned[1].regions) - 1) :
             Origin(k) = Origin(k + 1) =>
                 /\ returned[1].regions[k].end + 1 = returned[1].regions[k + 1].start
                 /\ returned[1].regions[k].start = regions[Origin(k)].start
                 /\ returned[1].regions[k + 1].end = regions[Origin(k)].end

\* Two regions of one block are returned, the second starting after the first.
C19_Witness ==
    /\ pc = "returned"
    /\ StrictlyIncreasing
    /\ Len(regions) = 2
    /\ Len(returned[1].regions) = 2
    /\ SameBlock(1, 2)
    /\ returned[1].regions[1].end < returned[1].regions[2].start

\* The two halves of a split on strictly increasing input.
C19_SplitCase ==
    /\ pc = "returned"
    /\ StrictlyIncreasing
    /\ Len(returned[1].regions) = 2
    /\ Origin(1) = Origin(2)

====
